---- MODULE Spec2Model ----
(***************************************************************************)
(* Model of backend/sandbox/sandbox.py: the sandbox resolver               *)
(* get_or_start_sandbox, the supervisor bootstrap start_supervisord_session*)
(* and the lazily resolved tool base SandboxToolsBase.                     *)
(*                                                                         *)
(* One SandboxToolsBase instance is shared by NumTasks asyncio tasks of    *)
(* one event loop.  A task is suspended only at an await that can yield    *)
(* (the two database awaits of _ensure_sandbox); get_or_start_sandbox has  *)
(* no await inside, so everything from the resumption after the query to   *)
(* the return of _ensure_sandbox runs without another task of the loop     *)
(* being scheduled.  The database and the sandbox provider are external:   *)
(* what a query or a provider call answers is an input of the step that    *)
(* issues it, drawn from every answer they can give.                       *)
(***************************************************************************)
EXTENDS Naturals, Sequences, FiniteSets

\* ------------------------------------------------------------------ bounds
NumTasks == 2
NumSandboxIds == 2
NumPasswords == 1

Tasks == 1..NumTasks
IdNames == <<"sb1", "sb2", "sb3", "sb4">>
SandboxIds == {IdNames[i] : i \in 1..NumSandboxIds}
PassNames == <<"pw1", "pw2", "pw3">>
Passwords == {PassNames[i] : i \in 1..NumPasswords}

\* ------------------------------------------------------------------ values
\* Python's None, for the string-valued fields.
None == "None"
\* The empty string (falsy, like None, in `not sandbox_info.get('id')`).
EmptyStr == ""

ARCHIVED == "archived"
STOPPED == "stopped"
STARTED == "started"
WorkspaceState == {ARCHIVED, STOPPED, STARTED}

\* A Sandbox handle: the id and the state copied at the fetch.
Handle(id, state) == [id |-> id, state |-> state]
\* None, for the handle-valued fields.
NoHandle == [id |-> None, state |-> None]

session_id == "supervisord-session"

\* What a provider call can raise; DuplicateSession only from create_session.
ApiError == "ApiError"
DuplicateSession == "DuplicateSession"
ValueError == "ValueError"
AttributeError == "AttributeError"
RuntimeError == "RuntimeError"
DbError == "DbError"

\* What the query of line 165 can answer: no row, or the row of the project,
\* whose 'sandbox' entry is absent, null, or a map with or without 'id'/'pass'.
NoRow == [found |-> FALSE, sandbox |-> "absent", id |-> None, pass |-> None]
\* No answer (yet): the query has not returned, or it raised.
NoResult == [found |-> FALSE, sandbox |-> None, id |-> None, pass |-> None]
Row(kind, id, pass) == [found |-> TRUE, sandbox |-> kind, id |-> id, pass |-> pass]
ProjectResults ==
    {NoRow, Row("absent", None, None), Row("null", None, None)}
    \cup {Row("map", i, p) : i \in {None, EmptyStr} \cup SandboxIds,
                             p \in {None} \cup Passwords}

\* ------------------------------------------------- values of create_sandbox
\* A Python str is the sequence of its characters; an Optional[str] is None
\* or a str.
PyNone == [none |-> TRUE, chars |-> <<>>]
Str(cs) == [none |-> FALSE, chars |-> cs]
\* Truthiness of an Optional[str], as in `project_id or ...` (line 98).
Truthy(v) == ~v.none /\ Len(v.chars) > 0

HexDigits == <<"0", "1", "2", "3", "4", "5", "6", "7",
               "8", "9", "a", "b", "c", "d", "e", "f">>
\* A string of n hexadecimal digits, the i-th one depending on i and on k.
HexString(n, k) == [i \in 1..n |-> HexDigits[((i + k) % 16) + 1]]
\* The length of str(uuid.uuid4()), and the places of its hyphens.
UuidLen == 36
UuidHyphens == {9, 14, 19, 24}
Uuid(k) == [i \in 1..UuidLen |-> IF i \in UuidHyphens THEN "-"
                                  ELSE HexDigits[((i + k) % 16) + 1]]
\* What uuid.uuid4() can generate.
NumUuids == 2
Uuids == {Uuid(k) : k \in 1..NumUuids}
\* The project ids a caller can pass: shorter than, as long as and longer
\* than the slice of line 99, the empty string, a uuid; or none.
NameSliceLen == 8
MaxIdDelta == 1
IdLengths == {3} \cup ((NameSliceLen - MaxIdDelta)..(NameSliceLen + MaxIdDelta))
ProjectIds ==
    {PyNone, Str(<<>>), Str(Uuid(5))} \cup {Str(HexString(n, 3)) : n \in IdLengths}

NamePrefix == <<"S", "a", "n", "d", "b", "o", "x", "-">>
NoParams == [name |-> <<>>, target_id |-> None, image |-> None, env_vars |-> <<>>]
NoStr == <<>>

\* ------------------------------------------------------------------- state
VARIABLES
    _sandbox,        \* self._sandbox
    _sandbox_id,     \* self._sandbox_id
    _sandbox_pass,   \* self._sandbox_pass
    pc,              \* where each task's _ensure_sandbox call stands
    project,         \* the query result of the call (line 165)
    arg_sandbox_id,  \* the argument of get_or_start_sandbox
    local_sandbox,   \* the local `sandbox` of get_or_start_sandbox
    trace,           \* the database and provider calls the call has issued
    ret,             \* the handle the call returned
    err,             \* the exception the call raised
    everCalled,      \* history: _ensure_sandbox has been called
    firstOk,         \* history: what the first successful call returned
    cachedBoot,      \* history: the call that last set _sandbox bootstrapped
    sessions,        \* provider: the sandboxes in which create_session has
                     \* opened the session "supervisord-session"
    created,         \* provider: the sandboxes daytona.create has created
    cs_pc,           \* where the create_sandbox call stands
    password,        \* create_sandbox: the argument `password`
    project_id,      \* create_sandbox: the argument `project_id`
    current_sandbox_id, \* create_sandbox: the local of line 98
    params,          \* create_sandbox: the CreateSandboxParams of line 115
    new_sandbox,     \* create_sandbox: the local of line 128
    cs_trace,        \* the provider calls the create_sandbox call has issued
    cs_ret,          \* the handle create_sandbox returned
    cs_err           \* the exception create_sandbox raised

fields == <<_sandbox, _sandbox_id, _sandbox_pass>>
locals == <<project, arg_sandbox_id, local_sandbox>>
outcome == <<ret, err>>
history == <<everCalled, firstOk, cachedBoot, sessions>>
vars == <<_sandbox, _sandbox_id, _sandbox_pass, pc, project, arg_sandbox_id,
          local_sandbox, trace, ret, err, everCalled, firstOk, cachedBoot,
          sessions, created, cs_pc, password, project_id, current_sandbox_id,
          params, new_sandbox, cs_trace, cs_ret, cs_err>>
\* The state of SandboxToolsBase and of its callers.
toolVars == <<_sandbox, _sandbox_id, _sandbox_pass, pc, project, arg_sandbox_id,
              local_sandbox, trace, ret, err, everCalled, firstOk, cachedBoot>>
\* The state of a create_sandbox call.
createVars == <<created, cs_pc, password, project_id, current_sandbox_id,
                params, new_sandbox, cs_trace, cs_ret, cs_err>>

\* A task at one of these runs without yielding to the event loop.
SyncPcs == {"fetch", "start", "refetch", "create_session", "execute", "done"}
\* The event loop may schedule task t: no other task is between two awaits.
Scheduled(t) == \A u \in Tasks \ {t} : pc[u] \notin SyncPcs

Init ==
    /\ _sandbox = NoHandle
    /\ _sandbox_id = None
    /\ _sandbox_pass = None
    /\ pc = [t \in Tasks |-> "idle"]
    /\ project = [t \in Tasks |-> NoResult]
    /\ arg_sandbox_id = [t \in Tasks |-> None]
    /\ local_sandbox = [t \in Tasks |-> NoHandle]
    /\ trace = [t \in Tasks |-> <<>>]
    /\ ret = [t \in Tasks |-> NoHandle]
    /\ err = [t \in Tasks |-> None]
    /\ everCalled = FALSE
    /\ firstOk = NoHandle
    /\ cachedBoot = FALSE
    /\ sessions = {}
    /\ created = {}
    /\ cs_pc = "idle"
    /\ password = None
    /\ project_id = PyNone
    /\ current_sandbox_id = NoStr
    /\ params = NoParams
    /\ new_sandbox = NoHandle
    /\ cs_trace = <<>>
    /\ cs_ret = NoHandle
    /\ cs_err = None

\* ------------------------------------------------------------- the resolver
\* A call of the database or of the provider, with what it answered; `session`
\* is the session id passed to the two process calls.
Request(op, session, out) == [op |-> op, session |-> session, out |-> out]
Issue(t, op, session, out) ==
    trace' = [trace EXCEPT ![t] = Append(@, Request(op, session, out))]

NeedsStart_stopped_only(state) == state = STOPPED
NeedsStart_any_state(state) == TRUE
\* Line 53.
NeedsStart(state) == state = ARCHIVED \/ state = STOPPED

\* The handlers raise another exception than the one they caught.
Raise_wrapped(t, e) ==
    /\ pc' = [pc EXCEPT ![t] = "done"]
    /\ err' = [err EXCEPT ![t] = RuntimeError]
    /\ UNCHANGED <<fields, ret, history>>

\* An exception leaves get_or_start_sandbox and _ensure_sandbox through
\* `raise e` (lines 64-66, 71-73, 88-90, 196-198): nothing is assigned.
Raise(t, e) ==
    /\ pc' = [pc EXCEPT ![t] = "done"]
    /\ err' = [err EXCEPT ![t] = e]
    /\ UNCHANGED <<fields, ret, history>>

\* Lines 69, 180, 200: the resolver returns h, which is cached and returned.
ReturnSandbox(t, h, booted) ==
    /\ _sandbox' = h
    /\ ret' = [ret EXCEPT ![t] = h]
    /\ pc' = [pc EXCEPT ![t] = "done"]
    /\ firstOk' = IF firstOk = NoHandle THEN h ELSE firstOk
    /\ cachedBoot' = booted
    /\ UNCHANGED <<_sandbox_id, _sandbox_pass, err, everCalled, sessions>>

Unresolved_cache_ignored == TRUE
\* Line 159: the "already resolved" check.
Unresolved == _sandbox = NoHandle

\* _ensure_sandbox is entered (lines 157-159).  Resolved: line 200 returns the
\* cached handle.  Unresolved: the call suspends at `await ...db.client`.
Call(t) ==
    /\ pc[t] = "idle"
    /\ Scheduled(t)
    /\ everCalled' = TRUE
    /\ IF Unresolved
       THEN /\ pc' = [pc EXCEPT ![t] = "client"]
            /\ UNCHANGED ret
       ELSE /\ pc' = [pc EXCEPT ![t] = "done"]
            /\ ret' = [ret EXCEPT ![t] = _sandbox]
    /\ UNCHANGED <<fields, locals, trace, err, firstOk, cachedBoot, sessions>>

\* Line 162 resumes and line 165 sends the query and suspends on it.
DbClient(t) ==
    /\ pc[t] = "client"
    /\ Scheduled(t)
    /\ pc' = [pc EXCEPT ![t] = "query"]
    /\ Issue(t, "select", None, "sent")
    /\ UNCHANGED <<fields, locals, outcome, history>>

HasSandboxId_not_none(r) == r.id # None
\* Line 166: the project was found.
ProjectFound(r) == r.found
\* Line 172: sandbox_info.get('id') is truthy.
HasSandboxId(r) == r.id # None /\ r.id # EmptyStr

\* The check of line 159 made again after the awaits.
Select_rechecked(t) ==
    /\ pc[t] = "query"
    /\ Scheduled(t)
    /\ UNCHANGED trace
    /\ IF _sandbox # NoHandle
       THEN /\ pc' = [pc EXCEPT ![t] = "done"]
            /\ ret' = [ret EXCEPT ![t] = _sandbox]
            /\ UNCHANGED <<fields, locals, err, history>>
       ELSE \E r \in ProjectResults :
            /\ project' = [project EXCEPT ![t] = r]
            /\ IF ~r.found \/ r.id \in {None, EmptyStr}
               THEN Raise(t, ValueError) /\ UNCHANGED <<arg_sandbox_id, local_sandbox>>
               ELSE /\ _sandbox_id' = r.id
                    /\ _sandbox_pass' = r.pass
                    /\ arg_sandbox_id' = [arg_sandbox_id EXCEPT ![t] = r.id]
                    /\ pc' = [pc EXCEPT ![t] = "fetch"]
                    /\ UNCHANGED <<_sandbox, local_sandbox, outcome, history>>

\* The id is handed to the resolver without being stored on the instance.
Select_id_not_stored(t) ==
    /\ pc[t] = "query"
    /\ Scheduled(t)
    /\ UNCHANGED trace
    /\ \E r \in ProjectResults :
            /\ project' = [project EXCEPT ![t] = r]
            /\ IF ~ProjectFound(r) \/ r.sandbox = "null" \/ ~HasSandboxId(r)
               THEN Raise(t, ValueError) /\ UNCHANGED <<arg_sandbox_id, local_sandbox>>
               ELSE /\ arg_sandbox_id' = [arg_sandbox_id EXCEPT ![t] = r.id]
                    /\ pc' = [pc EXCEPT ![t] = "fetch"]
                    /\ UNCHANGED <<fields, local_sandbox, outcome, history>>

\* Lines 165-180: the query answers r (or fails); the record is validated,
\* the id and the password are stored, and get_or_start_sandbox is entered.
Select(t) ==
    /\ pc[t] = "query"
    /\ Scheduled(t)
    /\ UNCHANGED trace
    /\ \/ /\ Raise(t, DbError)
          /\ UNCHANGED locals
       \/ \E r \in ProjectResults :
            /\ project' = [project EXCEPT ![t] = r]
            /\ IF ~ProjectFound(r)
               THEN Raise(t, ValueError) /\ UNCHANGED <<arg_sandbox_id, local_sandbox>>
               ELSE IF r.sandbox = "null"
               THEN Raise(t, AttributeError) /\ UNCHANGED <<arg_sandbox_id, local_sandbox>>
               ELSE IF ~HasSandboxId(r)
               THEN Raise(t, ValueError) /\ UNCHANGED <<arg_sandbox_id, local_sandbox>>
               ELSE /\ _sandbox_id' = r.id
                    /\ _sandbox_pass' = r.pass
                    /\ arg_sandbox_id' = [arg_sandbox_id EXCEPT ![t] = r.id]
                    /\ pc' = [pc EXCEPT ![t] = "fetch"]
                    /\ UNCHANGED <<_sandbox, local_sandbox, outcome, history>>

\* Lines 50-53 (and 68-69, 180, 200 when no start is needed): the first fetch.
Fetch(t) ==
    /\ pc[t] = "fetch"
    /\ \E out \in WorkspaceState \cup {ApiError} :
         /\ Issue(t, "get_current_sandbox", None, out)
         /\ IF out = ApiError
            THEN Raise(t, out) /\ UNCHANGED locals
            ELSE /\ local_sandbox' =
                        [local_sandbox EXCEPT ![t] = Handle(arg_sandbox_id[t], out)]
                 /\ UNCHANGED <<project, arg_sandbox_id>>
                 /\ IF NeedsStart(out)
                    THEN /\ pc' = [pc EXCEPT ![t] = "start"]
                         /\ UNCHANGED <<fields, outcome, history>>
                    ELSE ReturnSandbox(t, Handle(arg_sandbox_id[t], out), FALSE)

\* Line 56: daytona.start(sandbox).
Start(t) ==
    /\ pc[t] = "start"
    /\ UNCHANGED locals
    /\ \E out \in {"ok", ApiError} :
         /\ Issue(t, "start", None, out)
         /\ IF out = ApiError
            THEN Raise(t, out)
            ELSE /\ pc' = [pc EXCEPT ![t] = "refetch"]
                 /\ UNCHANGED <<fields, outcome, history>>

\* Line 60: the fetch after the start.
Refetch(t) ==
    /\ pc[t] = "refetch"
    /\ \E out \in WorkspaceState \cup {ApiError} :
         /\ Issue(t, "get_current_sandbox", None, out)
         /\ IF out = ApiError
            THEN Raise(t, out) /\ UNCHANGED locals
            ELSE /\ local_sandbox' =
                        [local_sandbox EXCEPT ![t] = Handle(arg_sandbox_id[t], out)]
                 /\ pc' = [pc EXCEPT ![t] = "create_session"]
                 /\ UNCHANGED <<project, arg_sandbox_id, fields, outcome, history>>

\* A failure of create_session is swallowed.
CreateSession_error_swallowed(t) ==
    /\ pc[t] = "create_session"
    /\ UNCHANGED locals
    /\ \E out \in {"ok", ApiError, DuplicateSession} :
         /\ Issue(t, "create_session", session_id, out)
         /\ pc' = [pc EXCEPT ![t] = "execute"]
         /\ sessions' = sessions \cup {arg_sandbox_id[t]}
         /\ UNCHANGED <<fields, outcome, everCalled, firstOk, cachedBoot>>

\* A session that was already opened in the sandbox is used again.
CreateSession_existing_reused(t) ==
    /\ pc[t] = "create_session"
    /\ UNCHANGED locals
    /\ IF arg_sandbox_id[t] \in sessions
       THEN /\ pc' = [pc EXCEPT ![t] = "execute"]
            /\ UNCHANGED <<fields, outcome, history, trace>>
       ELSE \E out \in {"ok", ApiError} :
            /\ Issue(t, "create_session", session_id, out)
            /\ IF out # "ok"
               THEN Raise(t, out)
               ELSE /\ pc' = [pc EXCEPT ![t] = "execute"]
                    /\ sessions' = sessions \cup {arg_sandbox_id[t]}
                    /\ UNCHANGED <<fields, outcome, everCalled, firstOk, cachedBoot>>

\* Lines 63, 77-80: start_supervisord_session opens the session, without
\* looking for one of that id; the provider may reject a duplicate.
CreateSession(t) ==
    /\ pc[t] = "create_session"
    /\ UNCHANGED locals
    /\ \E out \in {"ok", ApiError, DuplicateSession} :
         /\ Issue(t, "create_session", session_id, out)
         /\ IF out # "ok"
            THEN Raise(t, out)
            ELSE /\ pc' = [pc EXCEPT ![t] = "execute"]
                 /\ sessions' = sessions \cup {arg_sandbox_id[t]}
                 /\ UNCHANGED <<fields, outcome, everCalled, firstOk, cachedBoot>>

\* The state of the handle is verified before it is returned.
ExecuteSessionCommand_state_verified(t) ==
    /\ pc[t] = "execute"
    /\ UNCHANGED locals
    /\ \E out \in {"ok", ApiError} :
         /\ Issue(t, "execute_session_command", session_id, out)
         /\ IF out = ApiError \/ local_sandbox[t].state # STARTED
            THEN Raise(t, ApiError)
            ELSE ReturnSandbox(t, local_sandbox[t], TRUE)

\* Lines 83-87, then 68-69, 180, 200: supervisord is launched in the session,
\* and the handle of the second fetch is returned and cached.
ExecuteSessionCommand(t) ==
    /\ pc[t] = "execute"
    /\ UNCHANGED locals
    /\ \E out \in {"ok", ApiError} :
         /\ Issue(t, "execute_session_command", session_id, out)
         /\ IF out = ApiError
            THEN Raise(t, out)
            ELSE ReturnSandbox(t, local_sandbox[t], TRUE)

\* The caller has the call's result: the coroutine and its locals are gone.
Return(t) ==
    /\ pc[t] = "done"
    /\ pc' = [pc EXCEPT ![t] = "idle"]
    /\ project' = [project EXCEPT ![t] = NoResult]
    /\ arg_sandbox_id' = [arg_sandbox_id EXCEPT ![t] = None]
    /\ local_sandbox' = [local_sandbox EXCEPT ![t] = NoHandle]
    /\ trace' = [trace EXCEPT ![t] = <<>>]
    /\ ret' = [ret EXCEPT ![t] = NoHandle]
    /\ err' = [err EXCEPT ![t] = None]
    /\ UNCHANGED <<fields, history>>

\* ---------------------------------------------------------- the accessors
sandbox_id_unchecked == [raised |-> None, value |-> _sandbox_id]
\* Lines 202-207: the `sandbox` property, its value or the error it raises.
sandbox ==
    IF _sandbox = NoHandle
    THEN [raised |-> RuntimeError, value |-> NoHandle]
    ELSE [raised |-> None, value |-> _sandbox]
\* Lines 209-214: the `sandbox_id` property.
sandbox_id ==
    IF _sandbox_id = None
    THEN [raised |-> RuntimeError, value |-> None]
    ELSE [raised |-> None, value |-> _sandbox_id]

\* ------------------------------------------------------- specifications
\* The calls of _ensure_sandbox on the instance, interleaved at their awaits.
Next ==
    \E t \in Tasks :
        \/ Call(t) /\ UNCHANGED createVars
        \/ DbClient(t) /\ UNCHANGED createVars
        \/ Select(t) /\ UNCHANGED createVars
        \/ Fetch(t) /\ UNCHANGED createVars
        \/ Start(t) /\ UNCHANGED createVars
        \/ Refetch(t) /\ UNCHANGED createVars
        \/ CreateSession(t) /\ UNCHANGED createVars
        \/ ExecuteSessionCommand(t) /\ UNCHANGED createVars
        \/ Return(t) /\ UNCHANGED createVars

Spec == Init /\ [][Next]_vars

\* Sequential use of the instance: a call is made only when no other call
\* is in progress.
Sequential == Cardinality({t \in Tasks : pc'[t] # "idle"}) <= 1
NextSeq ==
    \E t \in Tasks :
        \/ Call(t) /\ Sequential /\ UNCHANGED createVars
        \/ DbClient(t) /\ Sequential /\ UNCHANGED createVars
        \/ Select(t) /\ Sequential /\ UNCHANGED createVars
        \/ Fetch(t) /\ Sequential /\ UNCHANGED createVars
        \/ Start(t) /\ Sequential /\ UNCHANGED createVars
        \/ Refetch(t) /\ Sequential /\ UNCHANGED createVars
        \/ CreateSession(t) /\ Sequential /\ UNCHANGED createVars
        \/ ExecuteSessionCommand(t) /\ Sequential /\ UNCHANGED createVars
        \/ Return(t) /\ Sequential /\ UNCHANGED createVars

SpecSeq == Init /\ [][NextSeq]_vars

\* ----------------------------------------------------------- create_sandbox
\* `seq[:n]`: the first n elements, the whole sequence when it is shorter.
Slice_whole(seq, n) == seq
Slice(seq, n) == IF Len(seq) <= n THEN seq ELSE SubSeq(seq, 1, n)

\* Line 99: f"Sandbox-{current_sandbox_id[:8]}".
sandbox_name(id) == NamePrefix \o Slice(id, NameSliceLen)

\* Lines 101-113.
env_vars_payload(pw) ==
    [CHROME_PERSISTENT_SESSION |-> "true",
     RESOLUTION                |-> "1024x768x24",
     RESOLUTION_WIDTH          |-> "1024",
     RESOLUTION_HEIGHT         |-> "768",
     VNC_PASSWORD              |-> pw,
     ANONYMIZED_TELEMETRY      |-> "false",
     CHROME_PATH               |-> "",
     CHROME_USER_DATA          |-> "",
     CHROME_DEBUGGING_PORT     |-> "9222",
     CHROME_DEBUGGING_HOST     |-> "localhost",
     CHROME_CDP                |-> ""]

\* Lines 115-124.
CreateSandboxParams(name, env) ==
    [name      |-> name,
     target_id |-> "daytona_config.target",
     image     |-> "adamcohenhillel/kortix-suna:0.0.20",
     env_vars  |-> env]

CreateIssue(op, session, out) ==
    cs_trace' = Append(cs_trace, Request(op, session, out))

\* Lines 137-139 (and 88-90 below them): the error is logged and re-raised;
\* nothing is undone.
CreateRaise_cleanup(e) ==
    /\ cs_pc' = "done"
    /\ cs_err' = e
    /\ created' = created \ {new_sandbox.id}
    /\ UNCHANGED <<password, project_id, current_sandbox_id, params,
                   new_sandbox, cs_ret>>
CreateRaise(e) ==
    /\ cs_pc' = "done"
    /\ cs_err' = e
    /\ UNCHANGED <<created, password, project_id, current_sandbox_id, params,
                   new_sandbox, cs_ret>>

\* Lines 92-125: the call, up to the request to the provider.
CreateSandbox ==
    /\ cs_pc = "idle"
    /\ \E pw \in Passwords, pid \in ProjectIds, u \in Uuids :
         LET id == IF Truthy(pid) THEN pid.chars ELSE u
         IN  /\ password' = pw
             /\ project_id' = pid
             /\ current_sandbox_id' = id
             /\ params' = CreateSandboxParams(sandbox_name(id),
                                              env_vars_payload(pw))
    /\ cs_pc' = "create"
    /\ UNCHANGED <<toolVars, sessions, created, new_sandbox, cs_trace,
                   cs_ret, cs_err>>

\* Line 128: daytona.create(params); the provider names the new sandbox.
DaytonaCreate ==
    /\ cs_pc = "create"
    /\ \/ /\ CreateIssue("create", None, ApiError)
          /\ CreateRaise(ApiError)
          /\ UNCHANGED sessions
       \/ \E id \in SandboxIds \ created :
            /\ CreateIssue("create", None, "ok")
            /\ created' = created \cup {id}
            /\ new_sandbox' = Handle(id, STARTED)
            /\ cs_pc' = "create_session"
            /\ UNCHANGED <<sessions, password, project_id, current_sandbox_id,
                           params, cs_ret, cs_err>>
    /\ UNCHANGED toolVars

\* Line 132 -> line 80: create_session on the new sandbox.
NewCreateSession ==
    /\ cs_pc = "create_session"
    /\ \E out \in {"ok", ApiError, DuplicateSession} :
         /\ CreateIssue("create_session", session_id, out)
         /\ IF out # "ok"
            THEN CreateRaise(out) /\ UNCHANGED sessions
            ELSE /\ cs_pc' = "execute"
                 /\ sessions' = sessions \cup {new_sandbox.id}
                 /\ UNCHANGED <<created, password, project_id,
                                current_sandbox_id, params, new_sandbox,
                                cs_ret, cs_err>>
    /\ UNCHANGED toolVars

\* Line 132 -> lines 83-86, then the return of line 135.
NewExecuteSessionCommand ==
    /\ cs_pc = "execute"
    /\ \E out \in {"ok", ApiError} :
         /\ CreateIssue("execute_session_command", session_id, out)
         /\ IF out # "ok"
            THEN CreateRaise(out)
            ELSE /\ cs_pc' = "done"
                 /\ cs_ret' = new_sandbox
                 /\ UNCHANGED <<created, password, project_id,
                                current_sandbox_id, params, new_sandbox,
                                cs_err>>
    /\ UNCHANGED <<toolVars, sessions>>

\* The caller has taken the outcome; the locals of the call are gone.
CreateReturn ==
    /\ cs_pc = "done"
    /\ cs_pc' = "idle"
    /\ password' = None
    /\ project_id' = PyNone
    /\ current_sandbox_id' = NoStr
    /\ params' = NoParams
    /\ new_sandbox' = NoHandle
    /\ cs_trace' = <<>>
    /\ cs_ret' = NoHandle
    /\ cs_err' = None
    /\ UNCHANGED <<toolVars, sessions, created>>

\* The calls of create_sandbox, one after the other.
NextCreate ==
    \/ CreateSandbox
    \/ DaytonaCreate
    \/ NewCreateSession
    \/ NewExecuteSessionCommand
    \/ CreateReturn

SpecCreate == Init /\ [][NextCreate]_vars

\* ------------------------------------------------------------------ claims
IsProviderCall(r) == r.op # "select"
\* The provider calls of a call, in the order issued.
ProviderCalls(tr) == SelectSeq(tr, IsProviderCall)
Ops(tr) == [i \in 1..Len(tr) |-> tr[i].op]
Failed(r) == r.out \in {ApiError, DuplicateSession}
NoneFailed(tr) == \A i \in 1..Len(tr) : ~Failed(tr[i])
Count(tr, op) == Cardinality({i \in 1..Len(tr) : tr[i].op = op})
\* The call of task t is over (it returned or raised).
Over(t) == pc[t] = "done"
\* No task stands inside the resolver: a state another coroutine can see.
MidPcs == {"fetch", "start", "refetch", "create_session", "execute"}
Observable == \A t \in Tasks : pc[t] \notin MidPcs
\* The first fetch of the call answered one of `states`.
FirstFetch(t, states) ==
    LET tr == ProviderCalls(trace[t])
    IN  Len(tr) >= 1 /\ tr[1].op = "get_current_sandbox" /\ tr[1].out \in states

\* C1: a call of get_or_start_sandbox whose first fetch reports stopped or
\* archived and in which no provider call fails issues exactly: fetch, start,
\* fetch, create_session, execute_session_command, in this order (one start,
\* one bootstrap, the bootstrap after the start), and returns a handle.
C1_StartOnceThenBootstrapOnce ==
    \A t \in Tasks :
        (Over(t) /\ FirstFetch(t, {STOPPED, ARCHIVED})
                 /\ NoneFailed(ProviderCalls(trace[t])))
        => /\ Ops(ProviderCalls(trace[t])) =
                <<"get_current_sandbox", "start", "get_current_sandbox",
                  "create_session", "execute_session_command">>
           /\ err[t] = None
           /\ ret[t] # NoHandle

C1_Witness ==
    \E t \in Tasks :
        /\ Over(t)
        /\ FirstFetch(t, {ARCHIVED})
        /\ NoneFailed(ProviderCalls(trace[t]))
        /\ Count(trace[t], "start") = 1
        /\ Count(trace[t], "create_session") = 1
        /\ ret[t] # NoHandle

\* C2: a call of get_or_start_sandbox whose first fetch reports the sandbox
\* running issues no other provider call (no start, no create_session, no
\* execute_session_command) and returns the fetched handle.
C2_RunningNeitherStartsNorBootstraps ==
    \A t \in Tasks :
        FirstFetch(t, {STARTED})
        => /\ Ops(ProviderCalls(trace[t])) = <<"get_current_sandbox">>
           /\ Over(t)
           /\ err[t] = None
           /\ ret[t] = Handle(arg_sandbox_id[t], STARTED)
           /\ ret[t] = local_sandbox[t]

C2_Witness ==
    \E t \in Tasks :
        /\ Over(t)
        /\ FirstFetch(t, {STARTED})
        /\ ret[t] = Handle(arg_sandbox_id[t], STARTED)
        /\ arg_sandbox_id[t] \in SandboxIds

\* C3: in every state of the instance that a caller can observe, the fields
\* _sandbox, _sandbox_id and _sandbox_pass are all unset or all set; in
\* particular _sandbox_id is never set while _sandbox is unset.
AllUnset == _sandbox = NoHandle /\ _sandbox_id = None /\ _sandbox_pass = None
AllSet == _sandbox # NoHandle /\ _sandbox_id # None /\ _sandbox_pass # None
C3_FieldsAllOrNothing ==
    Observable =>
        /\ AllUnset \/ AllSet
        /\ ~(_sandbox_id # None /\ _sandbox = NoHandle)

\* C4: an _ensure_sandbox call whose query finds no project, or a project
\* whose sandbox entry is absent, empty or without an id, raises the
\* not-found error (ValueError) and issues no provider call.
LacksSandboxId(r) ==
    \/ r = NoRow
    \/ r.found /\ r.sandbox = "absent"
    \/ r.found /\ r.sandbox = "map" /\ r.id \in {None, EmptyStr}
C5_FreshAccessorsRaise ==
    ~everCalled =>
        /\ sandbox = [raised |-> RuntimeError, value |-> NoHandle]
        /\ sandbox_id = [raised |-> RuntimeError, value |-> None]

C5_Witness ==
    /\ ~everCalled
    /\ \A t \in Tasks : pc[t] = "idle"
    /\ sandbox.raised = RuntimeError
    /\ sandbox_id.raised = RuntimeError

\* C6: in every observable state in which no _ensure_sandbox call has yet
\* completed successfully, the sandbox accessor and the sandbox_id accessor
\* both raise.
C6_AccessorsRaiseUntilSuccess ==
    (Observable /\ firstOk = NoHandle) =>
        /\ sandbox.raised = RuntimeError
        /\ sandbox_id.raised = RuntimeError

\* C7: in sequential use, once a call has completed successfully, a later
\* call is over at once: it issues no database query and no provider call,
\* changes no field, raises nothing and returns the handle the first
\* successful call returned.
C7_LaterCallsAreNoOps ==
    [][\A t \in Tasks :
          (pc[t] = "idle" /\ pc'[t] # "idle" /\ firstOk # NoHandle)
          => /\ pc'[t] = "done"
             /\ trace'[t] = <<>>
             /\ fields' = fields
             /\ err'[t] = None
             /\ ret'[t] = firstOk
             /\ ret'[t] = _sandbox]_vars

C7_Witness ==
    \E t \in Tasks :
        /\ Over(t)
        /\ firstOk # NoHandle
        /\ trace[t] = <<>>
        /\ err[t] = None
        /\ ret[t] = firstOk

\* C8: a call suspended on the database is not stopped by the instance
\* having been resolved meanwhile: when its query returns it never takes the
\* cached handle, it validates the record and, given a sandbox id, stores it
\* and enters the resolver.  (The witness is the race itself: a call whose
\* create_session is rejected as a duplicate while another call of the same
\* instance, concurrent with it, has bootstrapped and cached the same sandbox.)
C8_ResumedCallIgnoresCache ==
    [][\A t \in Tasks :
          (pc[t] = "query" /\ pc'[t] # "query" /\ _sandbox # NoHandle)
          => /\ ret'[t] = NoHandle
             /\ \/ pc'[t] = "done" /\ err'[t] # None
                \/ /\ pc'[t] = "fetch"
                   /\ project'[t].id \in SandboxIds
                   /\ _sandbox_id' = project'[t].id
                   /\ arg_sandbox_id'[t] = project'[t].id]_vars

C8_Witness ==
    \E t \in Tasks :
        /\ Over(t)
        /\ err[t] = DuplicateSession
        /\ Count(trace[t], "create_session") = 1
        /\ trace[t][Len(trace[t])].session = session_id
        /\ _sandbox # NoHandle
        /\ cachedBoot
        /\ _sandbox.id = arg_sandbox_id[t]

\* C9: in a call of get_or_start_sandbox only the last provider call issued
\* can have failed; when it has, the call is over with that very error and
\* no handle, and in every call start is issued at most once.
C9_FailFast ==
    \A t \in Tasks :
        LET tr == ProviderCalls(trace[t])
        IN  /\ \A i \in 1..Len(tr) : Failed(tr[i]) => i = Len(tr)
            /\ (Len(tr) >= 1 /\ Failed(tr[Len(tr)]))
               => /\ Over(t)
                  /\ err[t] = tr[Len(tr)].out
                  /\ ret[t] = NoHandle
            /\ Count(tr, "start") <= 1
            /\ err[t] \in {ApiError, DuplicateSession}
               => Len(tr) >= 1 /\ Failed(tr[Len(tr)])

C9_Witness ==
    \E t \in Tasks :
        LET tr == ProviderCalls(trace[t])
        IN  /\ Over(t)
            /\ Len(tr) = 2
            /\ tr[2] = Request("start", None, ApiError)
            /\ err[t] = ApiError
            /\ ret[t] = NoHandle

\* C10: once _sandbox_id is set no step changes it, and once _sandbox is set
\* no step changes it.
C10_FieldsNeverChangeOnceSet ==
    [][/\ _sandbox_id # None => _sandbox_id' = _sandbox_id
       /\ _sandbox # NoHandle => _sandbox' = _sandbox]_vars

\* C12: a call that starts a stopped or archived sandbox and whose provider
\* calls all succeed returns (and caches) the handle of the fetch made after
\* the start, whatever state that fetch reported: the state is not checked.
C12_RefetchedHandleReturnedUnchecked ==
    \A t \in Tasks :
        LET tr == ProviderCalls(trace[t])
        IN  (Over(t) /\ Len(tr) = 5 /\ NoneFailed(tr))
            => /\ err[t] = None
               /\ ret[t] = Handle(arg_sandbox_id[t], tr[3].out)
               /\ _sandbox = ret[t]

C12_Witness ==
    \E t \in Tasks :
        LET tr == ProviderCalls(trace[t])
        IN  /\ Over(t)
            /\ err[t] = None
            /\ Len(tr) = 5
            /\ tr[5] = Request("execute_session_command", session_id, "ok")
            /\ ret[t].state = STOPPED
            /\ ret[t].state # STARTED

\* C15: in every call, execute_session_command is issued only right after a
\* create_session that succeeded, both with the session id
\* "supervisord-session"; a create_session that fails is the call's last
\* provider call and its error is the error of the _ensure_sandbox call.
C15_CreateSessionBeforeExecute ==
    \A t \in Tasks :
        LET tr == ProviderCalls(trace[t])
        IN  \A i \in 1..Len(tr) :
              /\ tr[i].op = "execute_session_command"
                 => /\ i > 1
                    /\ tr[i - 1].op = "create_session"
                    /\ tr[i - 1].out = "ok"
                    /\ tr[i].session = "supervisord-session"
                    /\ tr[i - 1].session = tr[i].session
              /\ (tr[i].op = "create_session" /\ Failed(tr[i]))
                 => /\ i = Len(tr)
                    /\ Count(tr, "execute_session_command") = 0
                    /\ Over(t)
                    /\ err[t] = tr[i].out
                    /\ ret[t] = NoHandle

C15_Witness ==
    \E t \in Tasks :
        LET tr == ProviderCalls(trace[t])
        IN  /\ Over(t)
            /\ Len(tr) = 4
            /\ tr[4] = Request("create_session", session_id, ApiError)
            /\ err[t] = ApiError
            /\ Count(tr, "execute_session_command") = 0

\* C16: an _ensure_sandbox call that ends with the not-found error leaves
\* _sandbox, _sandbox_id and _sandbox_pass all unset.
C16_NotFoundLeavesFieldsUnset ==
    \A t \in Tasks :
        (Over(t) /\ err[t] = ValueError) => AllUnset

\* C17: whenever _sandbox is set, _sandbox_id is set: whenever the sandbox
\* accessor returns a handle, the sandbox_id accessor returns a value.
C17_HandleImpliesId ==
    /\ _sandbox # NoHandle => _sandbox_id # None
    /\ sandbox.raised = None
       => sandbox_id.raised = None /\ sandbox_id.value \in SandboxIds

C17_Witness ==
    /\ sandbox.raised = None
    /\ sandbox.value = _sandbox
    /\ sandbox_id.raised = None
    /\ \E t \in Tasks : Over(t) /\ ret[t] = _sandbox

\* C18: in every observable state in which _sandbox and _sandbox_id are both
\* set, the cached handle is a handle of the sandbox whose id is _sandbox_id.
C18_CachedHandleMatchesCachedId ==
    (Observable /\ _sandbox # NoHandle /\ _sandbox_id # None)
    => _sandbox.id = _sandbox_id

\* C13: the bootstrap is not idempotent: whenever a call reaches the
\* bootstrap it issues create_session with the id "supervisord-session",
\* also in a sandbox in which an earlier bootstrap has opened that session,
\* and when the provider rejects the duplicate the call ends with that error
\* and no handle.
C13_BootstrapNotIdempotent ==
    [][\A t \in Tasks :
          (pc[t] = "create_session" /\ pc'[t] # "create_session")
          => LET r == trace'[t][Len(trace'[t])]
             IN  /\ Len(trace'[t]) = Len(trace[t]) + 1
                 /\ r.op = "create_session"
                 /\ r.session = "supervisord-session"
                 /\ r.out = DuplicateSession
                    => /\ pc'[t] = "done"
                       /\ err'[t] = DuplicateSession
                       /\ ret'[t] = NoHandle
                       /\ _sandbox' = _sandbox]_vars

C13_Witness ==
    \E t \in Tasks :
        /\ Over(t)
        /\ FirstFetch(t, {STOPPED})
        /\ arg_sandbox_id[t] \in sessions
        /\ trace[t][Len(trace[t])] =
               Request("create_session", session_id, DuplicateSession)
        /\ err[t] = DuplicateSession
        /\ _sandbox = NoHandle

\* The provider calls a create_sandbox call makes, in the order it makes them.
CreateOrder == <<"create", "create_session", "execute_session_command">>
CreateFailed == {i \in 1..Len(cs_trace) : cs_trace[i].out # "ok"}
BootstrapFailed == \E i \in CreateFailed : i > 1

\* C11: create_sandbox asks the provider to create the sandbox and then runs
\* the supervisor bootstrap on the new sandbox, in that order.  When the
\* creation fails the bootstrap is never invoked.  When the bootstrap fails
\* after a successful creation, the error is re-raised, no handle is
\* returned and no cleanup call is made: the created sandbox stays at the
\* provider, without a running supervisor.
C11_CreateThenBootstrapNoCleanup ==
    /\ Len(cs_trace) <= Len(CreateOrder)
    /\ \A i \in 1..Len(cs_trace) : cs_trace[i].op = CreateOrder[i]
    /\ \A i \in CreateFailed :
         /\ i = Len(cs_trace)
         /\ cs_pc = "done"
         /\ cs_err = cs_trace[i].out
         /\ cs_ret = NoHandle
    /\ Len(cs_trace) > 1 => /\ new_sandbox # NoHandle
                            /\ new_sandbox.id \in created
    /\ BootstrapFailed =>
         /\ new_sandbox.id \in created
         /\ cs_trace[Len(cs_trace)] #
                Request("execute_session_command", session_id, "ok")
    /\ (cs_pc = "done" /\ CreateFailed = {}) =>
         /\ Ops(cs_trace) = CreateOrder
         /\ cs_ret = new_sandbox
         /\ cs_err = None
C11_Witness ==
    /\ cs_pc = "done"
    /\ Ops(cs_trace) = CreateOrder
    /\ cs_trace[1].out = "ok"
    /\ cs_trace[3].out = ApiError
    /\ cs_err = ApiError
    /\ cs_ret = NoHandle
    /\ new_sandbox.id \in created

\* A project id was supplied: the argument is neither None nor the empty string.
Supplied == Truthy(project_id)

\* C14: for every password and optional identifier passed to create_sandbox,
\* the VNC_PASSWORD of the created sandbox's environment is the supplied
\* password, unchanged; the identifier used is the supplied one, or a
\* generated one when none is supplied; and the display name is "Sandbox-"
\* followed by exactly the first 8 characters of that identifier (by the
\* whole identifier when it has fewer than 8).
C14_PasswordIdAndName ==
    cs_pc # "idle" =>
        LET id   == current_sandbox_id
            name == params.name
            k    == IF Len(id) < 8 THEN Len(id) ELSE 8
        IN  /\ params.env_vars.VNC_PASSWORD = password
            /\ password \in Passwords
            /\ IF Supplied THEN id = project_id.chars ELSE id \in Uuids
            /\ Len(name) = Len(NamePrefix) + k
            /\ \A i \in 1..Len(NamePrefix) : name[i] = NamePrefix[i]
            /\ \A i \in 1..k : name[Len(NamePrefix) + i] = id[i]
C14_Witness ==
    /\ cs_pc = "create_session"
    /\ Supplied
    /\ Len(project_id.chars) = NameSliceLen + 1
    /\ current_sandbox_id = project_id.chars
    /\ params.name = NamePrefix \o SubSeq(project_id.chars, 1, 8)
    /\ params.env_vars.VNC_PASSWORD = password

====
